---- MODULE Spec2Model ----
(***************************************************************************)
(* Latent-space projection of a target image (project / run_projection in  *)
(* projector.py, project / run_projection_sgan3_fun in                     *)
(* projector_stylegan3_fun.py), as a state machine.                        *)
(*                                                                         *)
(* Tensors are small exact values: a latent code is a sequence of integers *)
(* (one per layer row), a noise buffer is a vector num[i]/sqrt(qn/qd) or   *)
(* NaN, rates are fractions <<n, d>>.  The generator, the feature networks *)
(* and Adam are collaborators: their results come from a deterministic     *)
(* oracle selected by the generator's weights.                             *)
(***************************************************************************)
EXTENDS Integers, Sequences, FiniteSets, TLC

(* ------------------------------- bounds -------------------------------- *)
\* largest num_steps of a run of Spec
MaxSteps == 2
\* largest num_steps the learning-rate schedule is evaluated for (SpecLR)
MaxLRSteps == 12
\* latent values are 0..LatMod-1
LatMod == 3
\* states of the process-wide random generator
RngMod == 7

\* Throughout, CHOOSE y \in {e : x \in {v}} : TRUE is e with x bound to the
\* value of v, computed once.

(* --------------------------- exact fractions --------------------------- *)
\* a fraction <<n, d>> with d > 0
RNum(x) == x[1]
RDen(x) == x[2]
RMul(x, y) == <<x[1] * y[1], x[2] * y[2]>>
RDiv(x, y) == IF y[1] > 0 THEN <<x[1] * y[2], x[2] * y[1]>> ELSE <<-(x[1] * y[2]), x[2] * (-y[1])>>
RSub(x, y) == <<x[1] * y[2] - y[1] * x[2], x[2] * y[2]>>
RAdd(x, y) == <<x[1] * y[2] + y[1] * x[2], x[2] * y[2]>>
RLe(x, y) == x[1] * y[2] <= y[1] * x[2]
RLt(x, y) == x[1] * y[2] < y[1] * x[2]
REq(x, y) == x[1] * y[2] = y[1] * x[2]
RMin(x, y) == IF RLe(x, y) THEN x ELSE y
RMax(x, y) == IF RLe(x, y) THEN y ELSE x
RZero == <<0, 1>>
ROne == <<1, 1>>

RECURSIVE Gcd(_, _)
Gcd(a, b) == CHOOSE g \in {IF y = 0 THEN x ELSE Gcd(y, x % y) : x \in {a}, y \in {b}} : TRUE
Abs(a) == IF a < 0 THEN -a ELSE a
\* the fraction in lowest terms
RNorm(x) ==
    CHOOSE y \in {IF g = 0 THEN x ELSE <<x[1] \div g, x[2] \div g>> :
                    g \in {Gcd(Abs(x[1]), x[2])}} : TRUE

(* ----------------------- learning-rate schedule ------------------------ *)
\* np.cos(x * np.pi) for 0 <= x <= 1, by Bhaskara's rational formula
\* cos(pi x) ~ (1 - 4x^2) / (1 + x^2) on [0, 1/2], mirrored on [1/2, 1]
\* (exact at x = 0, 1/3, 1/2, 2/3, 1; within 0.002 elsewhere)
CosPiHalf(x) ==
    CHOOSE y \in {RDiv(RSub(ROne, RMul(<<4, 1>>, x2)), RAdd(ROne, x2)) :
                    x2 \in {RMul(x, x)}} : TRUE
CosPi(x) ==
    CHOOSE y \in {IF RLe(v, <<1, 2>>) THEN CosPiHalf(v)
                  ELSE <<-CosPiHalf(RSub(ROne, v))[1], CosPiHalf(RSub(ROne, v))[2]>> :
                    v \in {RNorm(x)}} : TRUE

\* lr_rampdown_length = 0.25, lr_rampup_length = 0.05, noise_ramp_length = 0.75
lr_rampdown_length == <<1, 4>>
lr_rampup_length == <<1, 20>>
noise_ramp_length == <<3, 4>>

\* t = step / num_steps
Progress(step, num_steps) == <<step, num_steps>>

\* lr_ramp of the ramped schedule
RampDown(t) == RNorm(RMin(ROne, RDiv(RSub(ROne, t), lr_rampdown_length)))
RampUp(t) == RNorm(RMin(ROne, RDiv(t, lr_rampup_length)))
Eased(down) == RNorm(RSub(<<1, 2>>, RMul(<<1, 2>>, CosPi(down))))
RampedLrRamp_NoRampup(t) ==
    CHOOSE y \in {Eased(down) : down \in {RampDown(t)}} : TRUE
RampedLrRamp(t) ==
    CHOOSE y \in {RMul(eased, up) :
                    eased \in {Eased(down) : down \in {RampDown(t)}}, up \in {RampUp(t)}} : TRUE

\* lr = initial_learning_rate * lr_ramp
LearningRate(step, num_steps, constant_learning_rate, initial_learning_rate) ==
    CHOOSE lr \in {RNorm(RMul(initial_learning_rate, lr_ramp)) :
                     lr_ramp \in {IF constant_learning_rate THEN ROne
                                  ELSE RampedLrRamp(Progress(step, num_steps))}} : TRUE

\* max(0.0, 1.0 - t / noise_ramp_length) ** 2, the factor of w_noise_scale
NoiseRamp(step, num_steps) ==
    CHOOSE y \in {RNorm(RMul(m, m)) :
                    m \in {RMax(RZero, RSub(ROne, RDiv(Progress(step, num_steps),
                                                       noise_ramp_length)))}} : TRUE

(* --------------------- process-wide random generator ------------------- *)
\* torch.manual_seed(seed): the state of torch's default generator
SeedRng(seed) == seed % RngMod
NextRng(s) == (s + 2) % RngMod
\* one standard-normal sample, read off the generator state (the samples of
\* one tensor differ from each other)
Randn(s) == s - (RngMod \div 2)
RECURSIVE RngAfter(_, _)
RngAfter(s, n) == IF n = 0 THEN s ELSE RngAfter(NextRng(s), n - 1)
\* torch.randn_like(x) for x of n elements
RandnLike(s, n) == [i \in 1..n |-> Randn(RngAfter(s, i - 1))]

(* ------------------------------ tensors -------------------------------- *)
RECURSIVE SumSeq(_)
SumSeq(v) == IF v = <<>> THEN 0 ELSE v[1] + SumSeq(Tail(v))
RECURSIVE GcdSeq(_)
GcdSeq(v) == IF v = <<>> THEN 0 ELSE Gcd(Abs(v[1]), GcdSeq(Tail(v)))
Squares(v) == [i \in 1..Len(v) |-> v[i] * v[i]]

\* a buffer holds the values num[i] / sqrt(q), or NaN in every element
NaNBuf(n) == [nan |-> TRUE, num |-> [i \in 1..n |-> 0], q |-> ROne]
\* the same values with num and q in lowest terms
Canon(num, q) ==
    CHOOSE y \in {IF g = 0 THEN [nan |-> FALSE, num |-> v, q |-> ROne]
                  ELSE [nan |-> FALSE, num |-> [i \in 1..Len(v) |-> v[i] \div g],
                        q |-> RNorm(<<q[1], q[2] * g * g>>)] :
                    v \in {num}, g \in {GcdSeq(num)}} : TRUE
\* a buffer of plain numbers
Tensor(v) == Canon(v, ROne)

\* buf.mean() in units of 1 / sqrt(q): zero exactly when the mean is zero
MeanNum(b) == <<SumSeq(b.num), Len(b.num)>>
\* buf.square().mean()
MeanSquare(b) == RNorm(RDiv(<<SumSeq(Squares(b.num)), Len(b.num)>>, b.q))
\* buf -= buf.mean()
SubMean(b) ==
    IF b.nan THEN b
    ELSE CHOOSE y \in {Canon([i \in 1..n |-> n * b.num[i] - s], <<b.q[1] * n * n, b.q[2]>>) :
                        n \in {Len(b.num)}, s \in {SumSeq(b.num)}} : TRUE
\* buf *= ms.rsqrt(): rsqrt(0) is inf, and 0 * inf is NaN
MulRsqrt(b, ms) ==
    IF b.nan THEN b
    ELSE IF ms[1] = 0 THEN NaNBuf(Len(b.num))
    ELSE Canon(b.num, RMul(b.q, ms))
\* buf -= buf.mean(); buf *= buf.square().mean().rsqrt()
\* (each intermediate tensor is bound as a value, not re-evaluated per use)
Normalize_ScaleFirst(b) ==
    CHOOSE y \in {SubMean(c) : c \in {MulRsqrt(v, MeanSquare(v)) : v \in {b}}} : TRUE
Normalize(b) ==
    CHOOSE y \in {MulRsqrt(c, MeanSquare(c)) : c \in {SubMean(v) : v \in {b}}} : TRUE

(* ----------------------------- generator ------------------------------- *)
Runs == {1, 2}
\* object identities: 0 is the caller's pretrained generator, r the object
\* that run r's copy.deepcopy creates
BaseId == 0
ObjIds == {BaseId} \cup Runs

NoiseNames == {"b4.conv1.noise_const", "b8.conv0.noise_const"}
BufferNames == NoiseNames \cup {"b8.conv0.resample_filter"}
\* named_buffers() of G.synthesis with 'noise_const' in the name
NoiseBufNames(g) == {name \in DOMAIN g.buffers : name \in NoiseNames}

\* the pretrained generator with weights w, as legacy.load_network_pkl and
\* requires_grad_(False) leave it
BaseG(w) ==
    [weights |-> w, img_resolution |-> 4, img_channels |-> 3, c_dim |-> 2, num_ws |-> 2,
     w_avg |-> w, training |-> TRUE, requires_grad |-> FALSE,
     buffers |-> [name \in BufferNames |->
                    IF name = "b4.conv1.noise_const" THEN Tensor(<<1, -1>>)
                    ELSE IF name = "b8.conv0.noise_const" THEN Tensor(<<1, 0, -2>>)
                    ELSE Tensor(<<1, 3, 3, 1>>)],
     buf_requires_grad |-> [name \in BufferNames |-> FALSE]]
\* an identity no object lives at yet
NoObj == [weights |-> 0, img_resolution |-> 0, img_channels |-> 0, c_dim |-> 0, num_ws |-> 0,
          w_avg |-> 0, training |-> FALSE, requires_grad |-> FALSE,
          buffers |-> [name \in {} |-> 0], buf_requires_grad |-> [name \in {} |-> FALSE]]

\* where copy.deepcopy(G) puts the copy made for run r of the object at id
DeepcopyId_Alias(id, r) == id
DeepcopyId(id, r) == r
\* copy.deepcopy(G).eval().requires_grad_(False).to(device)
EvalCopy(g) == [g EXCEPT !.training = FALSE, !.requires_grad = FALSE]

\* G.mapping(z, c): one row per layer, the same style in each
Mapping(g, z, c) == [l \in 1..g.num_ws |-> (g.weights + z + SumSeq(c)) % LatMod]
\* z_samples = np.random.RandomState(123).randn(w_avg_samples, G.z_dim)
ZSamples == <<0, 1>>
\* np.random.RandomState(projection_seed).randn(1, G.z_dim); a seed of None
\* is replaced by operating-system entropy
None == <<>>
SeededZ(projection_seed, entropy) ==
    IF projection_seed = None THEN entropy ELSE projection_seed[1] % LatMod

(* --------------------------- configurations ---------------------------- *)
InSgan3(c) == c.entry \in {"run_projection_sgan3_fun", "project_sgan3"}
IsEntryPoint(c) == c.entry \in {"run_projection_sgan3_fun", "run_projection"}
LossPapers == {"sgan2", "im2sgan", "discriminator", "clip"}
GoodRes == BaseG(0).img_resolution
GoodWidth == BaseG(0).c_dim
TargetClasses == {<<1, 0>>, <<0, 1, 1>>}

\* the keyword arguments project() of projector.py fixes
AdaDefaults ==
    [loss_paper |-> "sgan2", D |-> None, project_in_wplus |-> FALSE, start_wavg |-> TRUE,
     projection_seed |-> None, truncation_psi |-> ROne, constant_learning_rate |-> FALSE,
     initial_learning_rate |-> <<1, 10>>]
Config(entry, n, res, cls, seed, w, o) ==
    [entry |-> entry, num_steps |-> n, target_res |-> res, target_class |-> cls,
     seed |-> seed, weights |-> w,
     loss_paper |-> o.loss_paper, D |-> o.D, project_in_wplus |-> o.project_in_wplus,
     start_wavg |-> o.start_wavg, projection_seed |-> o.projection_seed,
     truncation_psi |-> o.truncation_psi,
     constant_learning_rate |-> o.constant_learning_rate,
     initial_learning_rate |-> o.initial_learning_rate]
Sgan3Options(entry) ==
    [loss_paper : LossPapers,
     D : IF entry = "project_sgan3" THEN {None, <<"D">>} ELSE {None},
     project_in_wplus : BOOLEAN, start_wavg : BOOLEAN,
     projection_seed : {None, <<1>>}, truncation_psi : {<<1, 2>>},
     constant_learning_rate : BOOLEAN,
     initial_learning_rate : {IF entry = "project_sgan3" THEN <<1, 10>> ELSE <<1, 100>>}]
Configs ==
    {Config(e, n, res, cls, seed, 0, o) :
        e \in {"run_projection", "project"}, n \in 0..MaxSteps,
        res \in {GoodRes, 2 * GoodRes}, cls \in TargetClasses, seed \in {0, 1},
        o \in {AdaDefaults}}
    \cup UNION {
        {Config(e, n, res, cls, 1, 0, o) :
            n \in 0..MaxSteps, res \in {GoodRes, 2 * GoodRes}, cls \in TargetClasses,
            o \in Sgan3Options(e)} :
        e \in {"run_projection_sgan3_fun", "project_sgan3"}}

(* ------------------------- latent statistics --------------------------- *)
\* a latent tensor: one integer per layer row, or NaN in every element.
\* Rows are stored in units of 1 / LatUnit(c), so that the sample mean and
\* the truncated start code are integers.
Lat(v) == [nan |-> FALSE, v |-> v]
NaNLat(n) == [nan |-> TRUE, v |-> [l \in 1..n |-> 0]]
NoLat == Lat(<<>>)
LatUnit(c) == Len(ZSamples) * c.truncation_psi[2]

\* w_samples = G.mapping(z_samples, target_class.repeat(w_avg_samples, 1)),
\* cut to its first row unless project_in_wplus
WSamples(g, c) ==
    [i \in 1..Len(ZSamples) |->
        LET w == Mapping(g, ZSamples[i], c.target_class)
        IN  [l \in 1..(IF c.project_in_wplus THEN g.num_ws ELSE 1) |-> LatUnit(c) * w[l]]]
\* torch.mean(w_samples, dim=0, keepdim=True)
SampleMean(samples) ==
    [l \in 1..Len(samples[1]) |->
        SumSeq([i \in 1..Len(samples) |-> samples[i][l]]) \div Len(samples)]
\* G.mapping.w_avg + truncation_psi * (G.mapping(z, target_class) - G.mapping.w_avg)
TruncatedStart(g, c, z) ==
    LET w == Mapping(g, z, c.target_class)
        psi == c.truncation_psi
    IN  [l \in 1..(IF c.project_in_wplus THEN g.num_ws ELSE 1) |->
            LatUnit(c) * g.w_avg + (psi[1] * (w[l] - g.w_avg) * LatUnit(c)) \div psi[2]]
\* the starting latent code w_avg
StartCode(g, c, w_samples, z) ==
    IF c.start_wavg THEN SampleMean(w_samples) ELSE TruncatedStart(g, c, z)
\* w_std ** 2 = torch.sum((w_samples - w_avg) ** 2) / w_avg_samples
WStdSq(samples, w_avg) ==
    RNorm(<<SumSeq([i \in 1..Len(samples) |->
                SumSeq(Squares([l \in 1..Len(w_avg) |-> samples[i][l] - w_avg[l]]))]),
            Len(samples)>>)

(* ------------------------------- losses -------------------------------- *)
NoiseOrder == <<"b4.conv1.noise_const", "b8.conv0.noise_const">>
\* noise_bufs, in the order named_buffers() lists them
NoiseBufs(g) == SelectSeq(NoiseOrder, LAMBDA name : name \in NoiseBufNames(g))

\* (noise * torch.roll(noise, shifts=1, dims=3)).mean() ** 2 plus the same
\* for dims=2, for a buffer seen as a [1, 1, 1, n] image (shape[2] <= 8, so
\* no pooled level follows)
RollProductMean(b) ==
    LET n == Len(b.num)
    IN  RDiv(<<SumSeq([i \in 1..n |-> b.num[i] * b.num[IF i = 1 THEN n ELSE i - 1]]), n>>, b.q)
RegTerm(b) ==
    CHOOSE y \in {RAdd(RMul(p, p), RMul(ms, ms)) :
                    p \in {RollProductMean(b)}, ms \in {MeanSquare(b)}} : TRUE
RECURSIVE RegLossOver(_, _)
RegLossOver(g, names) ==
    IF names = <<>> THEN RZero
    ELSE CHOOSE y \in {RNorm(RAdd(t, rest)) :
                        t \in {RegTerm(g.buffers[names[1]])},
                        rest \in {RegLossOver(g, Tail(names))}} : TRUE
RegLoss(g) == RegLossOver(g, NoiseBufs(g))

BufSig(b) == SumSeq(Squares(b.num)) + b.q[1] + b.q[2]
AnyNaN(g, w) == w.nan \/ \E name \in NoiseBufNames(g) : g.buffers[name].nan
\* what G.synthesis(ws, noise_mode='const') shows of its inputs: ws is
\* w_opt + w_noise, repeated over the layers unless project_in_wplus
SynthSig(g, c, w, noise) ==
    LET rows == [l \in 1..Len(w.v) |-> w.v[l] + noise[l]]
        reps == IF c.project_in_wplus THEN 1 ELSE g.num_ws
    IN  (g.weights + reps * SumSeq(rows)
         + SumSeq([i \in 1..Len(NoiseBufs(g)) |-> BufSig(g.buffers[NoiseBufs(g)[i]])])) % LatMod

regularize_noise_weight(c) == IF c.entry = "run_projection_sgan3_fun" THEN 1000 ELSE 100000

\* loss = percept_error + mse_error  # + 1e-2 * (1 - ssim_loss)
PerceptualLoss_WithSsim(percept_error, mse_error, ssim_loss) == percept_error + mse_error + ssim_loss
PerceptualLoss(percept_error, mse_error, ssim_loss) == percept_error + mse_error
\* the loss terms of one step: the strategy's terms, reg_loss and the
\* minimized loss, from the synthesized image (sig) and reg_loss (reg)
LossTermsOf(g, c, w, sig, reg) ==
    LET weighted == RMul(reg, <<regularize_noise_weight(c), 1>>)
    IN  IF AnyNaN(g, w) THEN [nan |-> TRUE, terms |-> <<>>, reg_loss |-> RZero, loss |-> RZero]
        ELSE IF c.loss_paper \in {"sgan2", "clip"}
        THEN [nan |-> FALSE, terms |-> <<sig>>, reg_loss |-> reg,
              loss |-> RNorm(RAdd(<<sig, 1>>, weighted))]
        ELSE LET percept_error == sig
                 mse_error == (sig + 1) % LatMod
                 ssim_loss == (sig + 2) % LatMod
             IN  [nan |-> FALSE, terms |-> <<percept_error, mse_error, ssim_loss>>,
                  reg_loss |-> reg,
                  loss |-> RNorm(RAdd(<<PerceptualLoss(percept_error, mse_error, ssim_loss), 1>>,
                                      weighted))]
LossTerms(g, c, w, noise) ==
    CHOOSE y \in {LossTermsOf(g, c, w, sig, reg) :
                    sig \in {SynthSig(g, c, w, noise)}, reg \in {RegLoss(g)}} : TRUE
\* last_status, the dictionary of the terms printed at a step
StatusOf(c, l) ==
    IF l.nan THEN [nan |-> TRUE, terms |-> <<>>, loss |-> RZero]
    ELSE [nan |-> FALSE, terms |-> l.terms, loss |-> l.loss]

(* ------------------------------ optimizer ------------------------------ *)
\* torch.optim.Adam over [w_opt] + noise buffers: lr of its one parameter
\* group, its moment estimates (m) and the number of step() calls
NewOptimizer(lr) == [lr |-> lr, m |-> 0, steps |-> 0]
GradSig(opt, l) == (opt.m + l.loss[1] + l.loss[2]) % LatMod
\* optimizer.step() on w_opt: param - lr * update, unchanged when lr is 0
StepLatent_Always(opt, l, w) ==
    IF l.nan THEN NaNLat(Len(w.v))
    ELSE Lat([i \in 1..Len(w.v) |-> (GradSig(opt, l) + i) % LatMod])
StepLatent(opt, l, w) ==
    IF l.nan THEN NaNLat(Len(w.v))
    ELSE IF opt.lr[1] = 0 THEN w
    ELSE Lat([i \in 1..Len(w.v) |-> (GradSig(opt, l) + i) % LatMod])
\* optimizer.step() on one noise buffer, the j-th parameter after w_opt
StepBuffer(opt, l, b, j) ==
    IF l.nan THEN NaNBuf(Len(b.num))
    ELSE IF opt.lr[1] = 0 THEN b
    ELSE Tensor([i \in 1..Len(b.num) |-> (((GradSig(opt, l) + j) * i) % 3) - 1])
StepMoments(opt, l) ==
    [opt EXCEPT !.m = IF l.nan THEN 0 ELSE GradSig(opt, l), !.steps = opt.steps + 1]

(* -------------------------------- state -------------------------------- *)
VARIABLES
    cfg,            \* per run: the arguments of the call
    pc,             \* per run: the position in the entry point / in project()
    err,            \* per run: the exception that ended the run, or ""
    rng,            \* state of torch's process-wide default generator
    heap,           \* generator objects by identity
    G,              \* per run: the object the local name G is bound to
    mapping_calls,  \* per run: evaluations of G.mapping
    w_avg,          \* per run: starting latent code
    w_std_sq,       \* per run: w_std ** 2
    features,       \* per run: the feature backend set up before the loop
    w_opt,          \* per run: optimized latent code
    w_out,          \* per run: trajectory tensor, one row block per step
    optimizer,      \* per run: Adam state
    step,           \* per run: loop variable
    w_noise,        \* per run: this step's perturbation of w_opt
    loss,           \* per run: this step's loss terms
    last_status,    \* per run: None or <<status>>
    printed,        \* per run: the per-step status messages printed
    writes,         \* per run: indices of w_out assigned, in order
    run_config,     \* per run: None or <<run_config>>
    result,         \* per run: None or <<value returned by project()>>
    files,          \* files written by the entry points
    reg,            \* per run: the locals of the noise regularization
    log_errors      \* per run: messages given to log.error

proj_vars == <<mapping_calls, w_avg, w_std_sq, features, w_opt, w_out, optimizer, step,
               w_noise, loss, last_status, printed, writes, run_config, result>>
vars == <<cfg, pc, err, rng, heap, G, proj_vars, files, log_errors, reg>>

\* an image of values num[i][j] / den
Image(num, den) == [num |-> num, den |-> den]
\* the regularizer's locals before the regularization starts
NoReg == [bufs |-> <<>>, v |-> 0, noise |-> Image(<<>>, 1), reg_loss |-> RZero, scales |-> <<>>]
NoLoss == [nan |-> FALSE, terms |-> <<>>, reg_loss |-> RZero, loss |-> RZero]

\* where a call with arguments c starts
EntryPc(c) == IF IsEntryPoint(c) THEN "start" ELSE "project"
\* the state in which the runs are at pcs with arguments cs, the random
\* generator in one of the states rngs
InitWith(pcs, cs, rngs) ==
    /\ cfg = cs
    /\ pc = pcs
    /\ err = [r \in Runs |-> ""]
    /\ rng \in rngs
    /\ heap = [id \in ObjIds |-> IF id = BaseId THEN BaseG(cs[1].weights) ELSE NoObj]
    /\ G = [r \in Runs |-> BaseId]
    /\ mapping_calls = [r \in Runs |-> 0]
    /\ w_avg = [r \in Runs |-> <<>>]
    /\ w_std_sq = [r \in Runs |-> RZero]
    /\ features = [r \in Runs |-> ""]
    /\ w_opt = [r \in Runs |-> NoLat]
    /\ w_out = [r \in Runs |-> <<>>]
    /\ optimizer = [r \in Runs |-> NewOptimizer(RZero)]
    /\ step = [r \in Runs |-> 0]
    /\ w_noise = [r \in Runs |-> <<>>]
    /\ loss = [r \in Runs |-> NoLoss]
    /\ last_status = [r \in Runs |-> None]
    /\ printed = [r \in Runs |-> <<>>]
    /\ writes = [r \in Runs |-> <<>>]
    /\ run_config = [r \in Runs |-> None]
    /\ result = [r \in Runs |-> None]
    /\ files = {}
    /\ log_errors = [r \in Runs |-> <<>>]
    /\ reg = [r \in Runs |-> NoReg]

Init ==
    \E c \in Configs :
        InitWith([r \in Runs |-> IF r = 1 THEN EntryPc(c) ELSE "off"], [r \in Runs |-> c],
                 0..(RngMod - 1))

\* raise e in run r
Raise(r, e) ==
    /\ pc' = [pc EXCEPT ![r] = "raised"]
    /\ err' = [err EXCEPT ![r] = e]
Goto(r, where) ==
    /\ pc' = [pc EXCEPT ![r] = where]
    /\ UNCHANGED err

(* ---------------------------- entry points ----------------------------- *)
\* run_projection: np.random.seed(seed); torch.manual_seed(seed), and the
\* unsqueeze of a 1-d target_class
RunProjection(r) ==
    /\ pc[r] = "start"
    /\ cfg[r].entry = "run_projection"
    /\ rng' = SeedRng(cfg[r].seed)
    /\ Goto(r, "project")
    /\ UNCHANGED <<cfg, reg, heap, G, proj_vars, files, log_errors>>

\* log.error(...) of sample_augment.utils.log: records the message
LogError(r, msg) == log_errors' = [log_errors EXCEPT ![r] = Append(@, msg)]
\* not start_wavg and projection_seed is None
StartSeedMissing(c) == ~c.start_wavg /\ c.projection_seed = None

\* run_projection_sgan3_fun up to the device selection: torch.manual_seed
\* and the check of the start seed
RunProjectionSgan3Fun(r) ==
    /\ pc[r] = "start"
    /\ cfg[r].entry = "run_projection_sgan3_fun"
    /\ rng' = SeedRng(cfg[r].seed)
    /\ IF StartSeedMissing(cfg[r])
       THEN LogError(r, "Provide a seed to start from if not starting from the midpoint")
       ELSE UNCHANGED log_errors
    /\ Goto(r, "check_loss")
    /\ UNCHANGED <<cfg, reg, heap, G, proj_vars, files>>

\* if loss_paper == 'discriminator': raise ValueError('not supported for now')
EntryRejectsLoss(loss_paper) == loss_paper = "discriminator"
CheckLossPaper(r) ==
    /\ pc[r] = "check_loss"
    /\ IF EntryRejectsLoss(cfg[r].loss_paper)
       THEN Raise(r, "ValueError")
       ELSE Goto(r, "project")
    /\ UNCHANGED <<cfg, reg, rng, heap, G, proj_vars, files, log_errors>>

(* ------------------------ project(): before the loop ------------------- *)
\* assert target_image.shape == (G.img_channels, G.img_resolution, G.img_resolution)
\* assert target.size == (G.img_resolution, G.img_resolution)
TargetShapeOK(c, g) == c.target_res = g.img_resolution
AssertTarget(r) ==
    /\ pc[r] = "project"
    /\ IF TargetShapeOK(cfg[r], heap[G[r]])
       THEN Goto(r, "deepcopy")
       ELSE Raise(r, "AssertionError")
    /\ UNCHANGED <<cfg, reg, rng, heap, G, proj_vars, files, log_errors>>

\* G = copy.deepcopy(G).eval().requires_grad_(False).to(device)
Deepcopy(r) ==
    /\ pc[r] = "deepcopy"
    /\ LET id == DeepcopyId(G[r], r)
       IN  /\ heap' = [heap EXCEPT ![id] = EvalCopy(heap[G[r]])]
           /\ G' = [G EXCEPT ![r] = id]
    /\ Goto(r, "assert_class")
    /\ UNCHANGED <<cfg, reg, rng, proj_vars, files, log_errors>>

\* assert target_class.size()[1] == G.c_dim
\* assert target_class.shape == (1, G.c_dim)
ClassShapeOK_Unchecked(c, g) == TRUE
ClassShapeOK(c, g) == Len(c.target_class) = g.c_dim
AssertClass(r) ==
    /\ pc[r] = "assert_class"
    /\ IF ClassShapeOK(cfg[r], heap[G[r]])
       THEN Goto(r, "w_stats")
       ELSE Raise(r, "AssertionError")
    /\ UNCHANGED <<cfg, reg, rng, heap, G, proj_vars, files, log_errors>>

\* Compute w stats: w_samples, w_avg, w_std
ComputeWStats(r) ==
    /\ pc[r] = "w_stats"
    /\ \E c \in {cfg[r]}, g \in {heap[G[r]]} :
           \E entropy \in (IF ~c.start_wavg /\ c.projection_seed = None
                           THEN 0..(LatMod - 1) ELSE {0}) :
               \E w_samples \in {WSamples(g, c)} :
               \E start \in {StartCode(g, c, w_samples, SeededZ(c.projection_seed, entropy))} :
                   /\ w_avg' = [w_avg EXCEPT ![r] = start]
                   /\ w_std_sq' = [w_std_sq EXCEPT ![r] = WStdSq(w_samples, start)]
                   /\ mapping_calls' = [mapping_calls EXCEPT
                                           ![r] = @ + (IF c.start_wavg THEN 1 ELSE 2)]
    /\ Goto(r, "features")
    /\ UNCHANGED <<cfg, reg, rng, heap, G, features, w_opt, w_out, optimizer, step, w_noise, loss,
                   last_status, printed, writes, run_config, result, files, log_errors>>

\* DiscriminatorFeatures(D) of network_features: needs a discriminator
DiscriminatorFeaturesRaises(D) == D = None
\* elif loss_paper == 'discriminator': disc = DiscriminatorFeatures(D)...
BuildsDiscriminatorFeatures_Never(loss_paper) == FALSE
BuildsDiscriminatorFeatures(loss_paper) == loss_paper = "discriminator"
\* the target features of the selected loss
SetupFeatures(r) ==
    /\ pc[r] = "features"
    /\ IF BuildsDiscriminatorFeatures(cfg[r].loss_paper) /\ DiscriminatorFeaturesRaises(cfg[r].D)
       THEN Raise(r, "UnsupportedLossStrategy") /\ UNCHANGED features
       ELSE /\ features' = [features EXCEPT ![r] = cfg[r].loss_paper]
            /\ Goto(r, "alloc")
    /\ UNCHANGED <<cfg, reg, rng, heap, G, mapping_calls, w_avg, w_std_sq, w_opt, w_out, optimizer,
                   step, w_noise, loss, last_status, printed, writes, run_config, result,
                   files, log_errors>>

\* w_opt, w_out = torch.zeros([num_steps] + list(w_opt.shape[1:])), optimizer
ZeroRows(n) == [l \in 1..n |-> 0]
AllocOptimizer(r) ==
    /\ pc[r] = "alloc"
    /\ w_opt' = [w_opt EXCEPT ![r] = Lat(w_avg[r])]
    /\ w_out' = [w_out EXCEPT ![r] = [k \in 1..cfg[r].num_steps |-> Lat(ZeroRows(Len(w_avg[r])))]]
    /\ optimizer' = [optimizer EXCEPT ![r] = NewOptimizer(cfg[r].initial_learning_rate)]
    /\ Goto(r, "init_noise")
    /\ UNCHANGED <<cfg, reg, rng, heap, G, mapping_calls, w_avg, w_std_sq, features, step, w_noise,
                   loss, last_status, printed, writes, run_config, result, files, log_errors>>

\* for buf in noise_bufs.values(): buf[:] = torch.randn_like(buf); buf.requires_grad = True
RECURSIVE InitNoiseBufs(_, _, _)
InitNoiseBufs(g, names, s) ==
    IF names = <<>> THEN g
    ELSE CHOOSE y \in {InitNoiseBufs(g1, Tail(names), s1) :
                        g1 \in {[g EXCEPT !.buffers[names[1]] = Tensor(RandnLike(s, Len(@.num))),
                                          !.buf_requires_grad[names[1]] = TRUE]},
                        s1 \in {RngAfter(s, Len(g.buffers[names[1]].num))}} : TRUE
NumElements(g, names) == SumSeq([i \in 1..Len(names) |-> Len(g.buffers[names[i]].num)])
InitNoise(r) ==
    /\ pc[r] = "init_noise"
    /\ \E g \in {heap[G[r]]} :
           /\ heap' = [heap EXCEPT ![G[r]] = InitNoiseBufs(g, NoiseBufs(g), rng)]
           /\ rng' = RngAfter(rng, NumElements(g, NoiseBufs(g)))
    /\ Goto(r, "loop")
    /\ UNCHANGED <<cfg, reg, G, proj_vars, files, log_errors>>

(* --------------------------- project(): the loop ----------------------- *)
initial_noise_factor == <<1, 20>>
\* w_noise_scale ** 2
WNoiseScaleSq(w_std2, st, num_steps) ==
    CHOOSE y \in {RNorm(RMul(RMul(w_std2, RMul(initial_noise_factor, initial_noise_factor)),
                             RMul(ramp, ramp))) : ramp \in {NoiseRamp(st, num_steps)}} : TRUE
\* torch.randn_like(w_opt) * w_noise_scale, in units of the scale
WNoise(draws, scale_sq) == [l \in 1..Len(draws) |-> IF scale_sq[1] = 0 THEN 0 ELSE draws[l]]

\* for step in range(num_steps)
LoopContinues_EarlyStop(st, num_steps, l) ==
    st < num_steps /\ (IF l.terms = <<>> THEN TRUE ELSE l.terms[1] # 0)
LoopContinues(st, num_steps, l) == st < num_steps

\* last_status = {...}
RecordStatus_First(prev, cur) == IF prev = None THEN <<cur>> ELSE prev
RecordStatus(prev, cur) == <<cur>>

\* one iteration up to the loss: learning rate, w_noise, synthesis, features,
\* loss terms, the printed message and last_status
LoopForward(r) ==
    /\ pc[r] = "loop"
    /\ LoopContinues(step[r], cfg[r].num_steps, loss[r])
    /\ \E c \in {cfg[r]}, g \in {heap[G[r]]}, n \in {Len(w_opt[r].v)} :
       \E noise \in {WNoise(RandnLike(rng, n),
                            WNoiseScaleSq(w_std_sq[r], step[r], c.num_steps))} :
       \E l \in {LossTerms(g, c, w_opt[r], noise)} :
           /\ optimizer' = [optimizer EXCEPT ![r].lr =
                  LearningRate(step[r], c.num_steps, c.constant_learning_rate,
                               c.initial_learning_rate)]
           /\ rng' = RngAfter(rng, n)
           /\ w_noise' = [w_noise EXCEPT ![r] = noise]
           /\ loss' = [loss EXCEPT ![r] = l]
           /\ IF InSgan3(c)
              THEN /\ last_status' = [last_status EXCEPT ![r] = RecordStatus(@, StatusOf(c, l))]
                   /\ printed' = [printed EXCEPT ![r] = Append(@, StatusOf(c, l))]
              ELSE UNCHANGED <<last_status, printed>>
    /\ Goto(r, "backward")
    /\ UNCHANGED <<cfg, reg, heap, G, mapping_calls, w_avg, w_std_sq, features, w_opt, w_out, step,
                   writes, run_config, result, files, log_errors>>

\* the row of w_out that w_out[step] = w_opt.detach()[0] assigns
WriteIndex_Stuck(st) == 0
WriteIndex(st) == st
\* the value w_out[step] = w_opt.detach()[0] stores: w_opt, not the
\* ws = w_opt + w_noise the image was synthesized from
Snapshot_Perturbed(w, noise) == [w EXCEPT !.v = [l \in 1..Len(w.v) |-> w.v[l] + noise[l]]]
Snapshot(w, noise) == w
RECURSIVE StepBuffers(_, _, _, _, _)
StepBuffers(g, names, opt, l, j) ==
    IF names = <<>> THEN g
    ELSE CHOOSE y \in {StepBuffers(g1, Tail(names), opt, l, j + 1) :
                        g1 \in {[g EXCEPT !.buffers[names[1]] = StepBuffer(opt, l, @, j)]}} : TRUE
\* optimizer.zero_grad(); loss.backward(); optimizer.step(); w_out[step] = w_opt
LoopStep(r) ==
    /\ pc[r] = "backward"
    /\ \E g \in {heap[G[r]]}, w \in {StepLatent(optimizer[r], loss[r], w_opt[r])} :
           /\ w_opt' = [w_opt EXCEPT ![r] = w]
           /\ heap' = [heap EXCEPT ![G[r]] = StepBuffers(g, NoiseBufs(g), optimizer[r], loss[r], 1)]
           /\ optimizer' = [optimizer EXCEPT ![r] = StepMoments(@, loss[r])]
           /\ w_out' = [w_out EXCEPT ![r][WriteIndex(step[r]) + 1] = Snapshot(w, w_noise[r])]
           /\ writes' = [writes EXCEPT ![r] = Append(@, WriteIndex(step[r]))]
    /\ Goto(r, "normalize")
    /\ UNCHANGED <<cfg, reg, rng, G, mapping_calls, w_avg, w_std_sq, features, step, w_noise, loss,
                   last_status, printed, run_config, result, files, log_errors>>

\* Normalize noise.
RECURSIVE NormalizeBufs(_, _)
NormalizeBufs(g, names) ==
    IF names = <<>> THEN g
    ELSE CHOOSE y \in {NormalizeBufs(g1, Tail(names)) :
                        g1 \in {[g EXCEPT !.buffers[names[1]] = Normalize(@)]}} : TRUE
LoopNormalize(r) ==
    /\ pc[r] = "normalize"
    /\ \E g \in {heap[G[r]]} :
           heap' = [heap EXCEPT ![G[r]] = NormalizeBufs(g, NoiseBufs(g))]
    /\ step' = [step EXCEPT ![r] = @ + 1]
    /\ Goto(r, "loop")
    /\ UNCHANGED <<cfg, reg, rng, G, mapping_calls, w_avg, w_std_sq, features, w_opt, w_out,
                   optimizer, w_noise, loss, last_status, printed, writes, run_config, result,
                   files, log_errors>>

(* ------------------------ project(): after the loop -------------------- *)
\* run_config
RunConfig(c, status) ==
    [num_steps |-> c.num_steps, initial_learning_rate |-> c.initial_learning_rate,
     constant_learning_rate |-> c.constant_learning_rate,
     regularize_noise_weight |-> regularize_noise_weight(c),
     lr_rampdown_length |-> lr_rampdown_length, lr_rampup_length |-> lr_rampup_length,
     noise_ramp_length |-> noise_ramp_length, initial_noise_factor |-> initial_noise_factor,
     w_avg_samples |-> Len(ZSamples),
     project_in_wplus |-> c.project_in_wplus, start_wavg |-> c.start_wavg,
     projection_seed |-> c.projection_seed, truncation_psi |-> c.truncation_psi,
     loss_paper |-> c.loss_paper,
     elapsed_time |-> "", last_commandline_status |-> status]
\* x.repeat([1, num_ws, 1]) of one trajectory entry
RepeatRows_Once(w, times) == w
RepeatRows(w, times) ==
    [w EXCEPT !.v = [l \in 1..(times * Len(w.v)) |-> w.v[((l - 1) % Len(w.v)) + 1]]]
\* the trajectory project() returns
Returned(c, g, out) ==
    IF InSgan3(c) /\ c.project_in_wplus THEN out
    ELSE [k \in 1..Len(out) |-> RepeatRows(out[k], g.num_ws)]

ProjectReturn(r) ==
    /\ pc[r] = "loop"
    /\ ~LoopContinues(step[r], cfg[r].num_steps, loss[r])
    /\ LET c == cfg[r]
       IN  IF InSgan3(c) /\ last_status[r] = None
           THEN Raise(r, "UnboundLocalError") /\ UNCHANGED <<run_config, result>>
           ELSE /\ run_config' = [run_config EXCEPT ![r] =
                       IF InSgan3(c) THEN <<RunConfig(c, last_status[r][1])>> ELSE None]
                /\ result' = [result EXCEPT ![r] = <<Returned(c, heap[G[r]], w_out[r])>>]
                /\ Goto(r, IF IsEntryPoint(c) THEN "save" ELSE "done")
    /\ UNCHANGED <<cfg, reg, rng, heap, G, mapping_calls, w_avg, w_std_sq, features, w_opt, w_out,
                   optimizer, step, w_noise, loss, last_status, printed, writes, files,
                   log_errors>>

(* --------------------- entry points: saving results -------------------- *)
File(r, name, content) == [run |-> r, name |-> name, content |-> content]
\* run_projection after project(): target image, projected image, npz
\* run_projection_sgan3_fun after project(): elapsed time, the same files
SaveResults(r) ==
    /\ pc[r] = "save"
    /\ LET c == cfg[r]
           steps == result[r][1]
           target == File(r, "target.png", <<>>)
       IN  /\ run_config' = [run_config EXCEPT ![r] =
                  IF InSgan3(c) THEN <<[@[1] EXCEPT !.elapsed_time = "elapsed"]>> ELSE @]
           /\ IF steps = <<>>
              THEN /\ files' = files \cup {target}
                   /\ Raise(r, "IndexError")
              ELSE LET projected_w == steps[Len(steps)]
                   IN  /\ files' = files \cup
                              {target, File(r, "proj.png", <<>>),
                               File(r, "npz",
                                    IF InSgan3(c)
                                    THEN [w |-> <<projected_w>>, target_class |-> c.target_class]
                                    ELSE [w |-> <<projected_w>>])}
                       /\ Goto(r, "done")
    /\ UNCHANGED <<cfg, reg, rng, heap, G, mapping_calls, w_avg, w_std_sq, features, w_opt, w_out,
                   optimizer, step, w_noise, loss, last_status, printed, writes, result,
                   log_errors>>

(* --------------------------- specifications ---------------------------- *)
Step(r) ==
    \/ RunProjection(r)
    \/ RunProjectionSgan3Fun(r)
    \/ CheckLossPaper(r)
    \/ AssertTarget(r)
    \/ Deepcopy(r)
    \/ AssertClass(r)
    \/ ComputeWStats(r)
    \/ SetupFeatures(r)
    \/ AllocOptimizer(r)
    \/ InitNoise(r)
    \/ LoopForward(r)
    \/ LoopStep(r)
    \/ LoopNormalize(r)
    \/ ProjectReturn(r)
    \/ SaveResults(r)
Next == \E r \in Runs : Step(r)
Spec == Init /\ [][Next]_vars

(* ------------------------------ properties ----------------------------- *)
Positions == {"off", "start", "check_loss", "project", "deepcopy", "assert_class", "w_stats",
              "features", "alloc", "init_noise", "loop", "backward", "normalize", "save",
              "done", "raised"}
\* project() has allocated w_out and the optimizer
Allocated(r) ==
    \/ pc[r] \in {"init_noise", "loop", "backward", "normalize", "save", "done"}
    \/ pc[r] = "raised" /\ err[r] \in {"UnboundLocalError", "IndexError"}
\* the loop of project() is running or over
InLoopOrAfter(r) ==
    \/ pc[r] \in {"loop", "backward", "normalize", "save", "done"}
    \/ pc[r] = "raised" /\ err[r] \in {"UnboundLocalError", "IndexError"}
\* the loop of project() is over
LoopLeft(r) ==
    \/ pc[r] \in {"save", "done"}
    \/ pc[r] = "raised" /\ err[r] \in {"UnboundLocalError", "IndexError"}
\* optimizer steps completed by run r
StepsDone(r) == optimizer[r].steps
\* the target's resolution or the conditioning width disagrees with the caller's generator
Mismatch(r) ==
    \/ cfg[r].target_res # heap[BaseId].img_resolution
    \/ Len(cfg[r].target_class) # heap[BaseId].c_dim
NoiseUntouched(g) ==
    \A name \in DOMAIN g.buffers :
        g.buffers[name] = BaseG(g.weights).buffers[name] /\ ~g.buf_requires_grad[name]

\* C1: once project() has allocated the trajectory it has exactly num_steps
\* entries; the entries assigned so far are 0, 1, ..., k-1 in this order, one
\* assignment per completed optimizer step, every later entry is still zero,
\* and the trajectory project() returns has num_steps entries.
C1_TrajectoryInStepOrder ==
    \A r \in Runs :
        /\ Allocated(r) =>
            /\ Len(w_out[r]) = cfg[r].num_steps
            /\ writes[r] = [k \in 1..StepsDone(r) |-> k - 1]
            /\ StepsDone(r) = step[r] + (IF pc[r] = "normalize" THEN 1 ELSE 0)
            /\ \A k \in (StepsDone(r) + 1)..Len(w_out[r]) :
                   w_out[r][k] = Lat(ZeroRows(Len(w_avg[r])))
        /\ result[r] # None => Len(result[r][1]) = cfg[r].num_steps
C1_Witness ==
    /\ pc[1] = "done"
    /\ cfg[1].num_steps = 2
    /\ writes[1] = <<0, 1>>
    /\ Len(result[1][1]) = 2

\* C2: a run whose target resolution or conditioning width disagrees with the
\* generator never gets past the two assertions at the top of project(): it
\* ends in AssertionError (ShapeMismatch) with no optimizer step taken, no
\* trajectory entry written and every noise buffer as it was.
C2_ShapeMismatchUpFront ==
    \A r \in Runs :
        Mismatch(r) =>
            /\ pc[r] \in {"off", "start", "check_loss", "project", "deepcopy", "assert_class",
                          "raised"}
            /\ pc[r] = "raised" => err[r] \in {"AssertionError", "ValueError"}
            /\ pc[r] = "raised" /\ err[r] = "ValueError" => G[r] = BaseId
            /\ StepsDone(r) = 0 /\ step[r] = 0
            /\ writes[r] = <<>> /\ w_out[r] = <<>>
            /\ \A id \in ObjIds : heap[id] # NoObj => NoiseUntouched(heap[id])
C2_Witness ==
    /\ cfg[1].target_res # heap[BaseId].img_resolution
    /\ pc[1] = "raised"
    /\ err[1] = "AssertionError"
    /\ StepsDone(1) = 0

\* C3: with loss_paper 'discriminator' and D None the run never reaches the
\* allocation of the optimizer nor the loop; when it has raised, the error is
\* the entry point's ValueError or the feature extractor's
\* UnsupportedLossStrategy, unless a shape assertion failed first.
C3_DiscriminatorNeedsD ==
    \A r \in Runs :
        cfg[r].loss_paper = "discriminator" /\ cfg[r].D = None =>
            /\ pc[r] \notin {"alloc", "init_noise", "loop", "backward", "normalize", "save", "done"}
            /\ StepsDone(r) = 0
            /\ pc[r] = "raised" =>
                  \/ err[r] = "ValueError" /\ cfg[r].entry = "run_projection_sgan3_fun"
                  \/ err[r] = "UnsupportedLossStrategy" /\ cfg[r].entry = "project_sgan3"
                  \/ err[r] = "AssertionError" /\ Mismatch(r)
            /\ cfg[r].entry = "run_projection_sgan3_fun" =>
                  pc[r] \in {"off", "start", "check_loss", "raised"} /\ err[r] \in {"", "ValueError"}
C3_Witness ==
    /\ cfg[1].entry = "project_sgan3"
    /\ cfg[1].loss_paper = "discriminator" /\ cfg[1].D = None
    /\ pc[1] = "raised"
    /\ err[1] = "UnsupportedLossStrategy"

\* C4: run_projection_sgan3_fun called with start_wavg false and no
\* projection_seed stops before any computation: project() is not called, no
\* G.mapping is evaluated and no file is written.
C4_MissingStartSeedStops ==
    \A r \in Runs :
        cfg[r].entry = "run_projection_sgan3_fun" /\ StartSeedMissing(cfg[r]) =>
            /\ pc[r] \in {"off", "start", "check_loss", "raised"}
            /\ mapping_calls[r] = 0
            /\ \A f \in files : f.run # r

\* C7: the caller's generator keeps every buffer, parameter and flag it had
\* before the call, in every state of every run, failed or not.
C7_CallerGeneratorUntouched ==
    heap[BaseId] = BaseG(cfg[1].weights)
C7_Witness ==
    /\ pc[1] = "done"
    /\ G[1] # BaseId
    /\ StepsDone(1) >= 1
    /\ \A name \in NoiseNames :
           /\ heap[G[1]].buffers[name] # heap[BaseId].buffers[name]
           /\ heap[G[1]].buf_requires_grad[name]
    /\ ~heap[G[1]].training

\* C10: in projector_stylegan3_fun, run_config exists exactly from the return
\* of project() on; its last_commandline_status is the status printed at step
\* num_steps - 1, its options are the arguments of the call, and its
\* elapsed_time is filled once the entry point has finished.
C10_RunSummary ==
    \A r \in Runs :
        /\ (run_config[r] # None) = (InSgan3(cfg[r]) /\ pc[r] \in {"save", "done"})
        /\ run_config[r] # None =>
            LET rc == run_config[r][1]
            IN  /\ Len(printed[r]) = cfg[r].num_steps
                /\ cfg[r].num_steps >= 1
                /\ rc.last_commandline_status = printed[r][cfg[r].num_steps]
                /\ [rc EXCEPT !.elapsed_time = ""] = RunConfig(cfg[r], rc.last_commandline_status)
                /\ rc.num_steps = cfg[r].num_steps
                /\ rc.loss_paper = cfg[r].loss_paper
                /\ rc.elapsed_time =
                      (IF pc[r] = "done" /\ IsEntryPoint(cfg[r]) THEN "elapsed" ELSE "")
C10_Witness ==
    /\ cfg[1].entry = "run_projection_sgan3_fun"
    /\ pc[1] = "done"
    /\ cfg[1].num_steps = 2
    /\ printed[1][1] # printed[1][2]
    /\ run_config[1][1].last_commandline_status = printed[1][2]
    /\ run_config[1][1].elapsed_time = "elapsed"

\* every element of the buffer has the same value, or the buffer is NaN
Degenerate(b) == b.nan \/ \A i, j \in 1..Len(b.num) : b.num[i] = b.num[j]
\* mean 0 and mean square 1
Normalized(b) == ~b.nan /\ MeanNum(b)[1] = 0 /\ REq(MeanSquare(b), ROne)
\* run r stands at the end of an iteration
IterationDone(r) == InLoopOrAfter(r) /\ pc[r] \notin {"backward", "normalize"} /\ step[r] >= 1

C6_LoopRunsNumSteps ==
    /\ [](\A r \in Runs :
            /\ LoopLeft(r) => StepsDone(r) = cfg[r].num_steps /\ step[r] = cfg[r].num_steps
            /\ StepsDone(r) <= cfg[r].num_steps)
    /\ \A r \in Runs : (pc[r] = "loop") ~> LoopLeft(r)
C6_Witness ==
    /\ pc[1] = "done"
    /\ cfg[1].num_steps = MaxSteps
    /\ StepsDone(1) = MaxSteps
    /\ printed[1] # <<>>
    /\ printed[1][1].terms # <<>> /\ printed[1][1].terms[1] = 0

\* runs that reach the loop: the shapes agree, the start is the sample mean
LoopConfigs ==
    {c \in Configs :
        /\ c.target_res = GoodRes /\ Len(c.target_class) = GoodWidth
        /\ c.start_wavg /\ c.projection_seed = None}
InitLoop ==
    \E c \in LoopConfigs :
        InitWith([r \in Runs |-> IF r = 1 THEN EntryPc(c) ELSE "off"], [r \in Runs |-> c], {0})
\* the loop is scheduled by the one thread that runs project(): a step that
\* can be taken is taken
SpecFair == InitLoop /\ [][Next]_vars /\ WF_vars(Next)

(* ---------------- the learning-rate schedule on its own ---------------- *)
\* initial_learning_rate: the 0.1 of project() and a smaller rate
InitialRates == {<<1, 10>>, <<1, 100>>}
ScheduleConfigs ==
    {[Config("project_sgan3", n, GoodRes, <<1, 0>>, 1, 0, AdaDefaults)
        EXCEPT !.constant_learning_rate = const, !.initial_learning_rate = lr] :
        n \in 1..MaxLRSteps, const \in BOOLEAN, lr \in InitialRates}
InitSchedule ==
    \E c \in ScheduleConfigs :
        InitWith([r \in Runs |-> IF r = 1 THEN "schedule" ELSE "off"], [r \in Runs |-> c], {0})
\* the schedule lines of one iteration: param_group['lr'] = lr
SetLearningRate(r) ==
    /\ pc[r] = "schedule"
    /\ step[r] < cfg[r].num_steps
    /\ optimizer' = [optimizer EXCEPT ![r].lr =
           LearningRate(step[r], cfg[r].num_steps, cfg[r].constant_learning_rate,
                        cfg[r].initial_learning_rate)]
    /\ Goto(r, "scheduled")
    /\ UNCHANGED <<cfg, reg, rng, heap, G, mapping_calls, w_avg, w_std_sq, features, w_opt, w_out,
                   step, w_noise, loss, last_status, printed, writes, run_config, result,
                   files, log_errors>>
\* for step in range(num_steps): the next value of step
RangeNext(r) ==
    /\ pc[r] = "scheduled"
    /\ step' = [step EXCEPT ![r] = @ + 1]
    /\ Goto(r, "schedule")
    /\ UNCHANGED <<cfg, reg, rng, heap, G, mapping_calls, w_avg, w_std_sq, features, w_opt, w_out,
                   optimizer, w_noise, loss, last_status, printed, writes, run_config, result,
                   files, log_errors>>
NextSchedule == \E r \in Runs : SetLearningRate(r) \/ RangeNext(r)
SpecSchedule == InitSchedule /\ [][NextSchedule]_vars

\* C9: the rate assigned at step k of num_steps is never negative and never
\* above the initial rate; in ramped mode it is 0 at step 0 and at most
\* 8 * (1 - k / num_steps) times the initial rate, so it tends to 0 as the
\* progress approaches 1; in constant mode it is the initial rate.
C9_LearningRateSchedule ==
    \A r \in Runs :
        pc[r] = "scheduled" =>
            \E c \in {cfg[r]}, lr \in {optimizer[r].lr}, k \in {step[r]} :
                /\ RLe(RZero, lr)
                /\ RLe(lr, c.initial_learning_rate)
                /\ c.constant_learning_rate => REq(lr, c.initial_learning_rate)
                /\ ~c.constant_learning_rate /\ k = 0 => lr[1] = 0
                /\ ~c.constant_learning_rate =>
                       RLe(lr, RMul(c.initial_learning_rate,
                                    <<8 * (c.num_steps - k), c.num_steps>>))
\* the last step of the longest ramped run: the rate is on its way down
C9_Witness ==
    /\ pc[1] = "scheduled"
    /\ ~cfg[1].constant_learning_rate
    /\ cfg[1].num_steps = MaxLRSteps
    /\ step[1] = MaxLRSteps - 1
    /\ optimizer[1].lr[1] > 0
    /\ RLt(optimizer[1].lr, cfg[1].initial_learning_rate)

(* ------------------------ two concurrent runs -------------------------- *)
\* two calls of run_projection in one process, on the same pretrained
\* generator, with targets of the right shape
ConcurrentConfigs ==
    {Config("run_projection", n, GoodRes, <<1, 0>>, seed, 0, AdaDefaults) :
        n \in 1..MaxSteps, seed \in {0, 1}}
InitConcurrent ==
    \E c1, c2 \in ConcurrentConfigs :
        InitWith([r \in Runs |-> "start"], [r \in Runs |-> IF r = 1 THEN c1 ELSE c2], {0})
StepConcurrent(r) ==
    \/ RunProjection(r)
    \/ AssertTarget(r)
    \/ Deepcopy(r)
    \/ AssertClass(r)
    \/ ComputeWStats(r)
    \/ SetupFeatures(r)
    \/ AllocOptimizer(r)
    \/ InitNoise(r)
    \/ LoopForward(r)
    \/ LoopStep(r)
    \/ LoopNormalize(r)
    \/ ProjectReturn(r)
    \/ SaveResults(r)
NextConcurrent == \E r \in Runs : StepConcurrent(r)
SpecConcurrent == InitConcurrent /\ [][NextConcurrent]_vars

\* run_projection(c) executed alone, up to the loop of project(): the seeded
\* generator state, the copy of the generator with its noise drawn, w_opt,
\* w_out, the optimizer and w_std ** 2
SoloStart(c) ==
    CHOOSE y \in
        {[g |-> InitNoiseBufs(g, NoiseBufs(g), SeedRng(c.seed)),
          rng |-> RngAfter(SeedRng(c.seed), NumElements(g, NoiseBufs(g))),
          w |-> Lat(start),
          out |-> [k \in 1..c.num_steps |-> Lat(ZeroRows(Len(start)))],
          opt |-> NewOptimizer(c.initial_learning_rate),
          std |-> WStdSq(WSamples(g, c), start)] :
            g \in {EvalCopy(BaseG(c.weights))},
            start \in {StartCode(EvalCopy(BaseG(c.weights)), c,
                                 WSamples(EvalCopy(BaseG(c.weights)), c),
                                 SeededZ(c.projection_seed, 0))}} : TRUE
\* iteration k of the loop, executed alone from s
SoloForward(c, s, k) ==
    CHOOSE y \in
        {[opt |-> opt, l |-> LossTerms(s.g, c, s.w, noise)] :
            opt \in {[s.opt EXCEPT !.lr = LearningRate(k, c.num_steps, c.constant_learning_rate,
                                                       c.initial_learning_rate)]},
            noise \in {WNoise(RandnLike(s.rng, Len(s.w.v)),
                              WNoiseScaleSq(s.std, k, c.num_steps))}} : TRUE
SoloIteration(c, s, k) ==
    CHOOSE y \in
        {[s EXCEPT !.g = NormalizeBufs(g, NoiseBufs(g)),
                   !.rng = RngAfter(s.rng, Len(s.w.v)),
                   !.w = w,
                   !.out[WriteIndex(k) + 1] = w,
                   !.opt = StepMoments(f.opt, f.l)] :
            f \in {SoloForward(c, s, k)},
            w \in {StepLatent(SoloForward(c, s, k).opt, SoloForward(c, s, k).l, s.w)},
            g \in {StepBuffers(s.g, NoiseBufs(s.g), SoloForward(c, s, k).opt,
                               SoloForward(c, s, k).l, 1)}} : TRUE
RECURSIVE SoloAfter(_, _)
SoloAfter(c, k) ==
    IF k = 0 THEN SoloStart(c)
    ELSE CHOOSE y \in {SoloIteration(c, s, k - 1) : s \in {SoloAfter(c, k - 1)}} : TRUE
\* what run_projection(c) leaves when no other run shares the process
Solo(c) == SoloAfter(c, c.num_steps)

\* C8 (as claimed): under every interleaving, a finished run's latent code,
\* trajectory and noise buffers are those of the same run executed alone.
C8_ConcurrentEqualsSolo ==
    \A r \in Runs :
        pc[r] = "done" =>
            \E s \in {Solo(cfg[r])} :
                /\ w_opt[r] = s.w
                /\ w_out[r] = s.out
                /\ heap[G[r]].buffers = s.g.buffers

\* a step of run r from one position to another
Moves(r, from, to) == pc[r] = from /\ pc'[r] = to
\* C13: the trajectory entry of a step is the optimized latent code as it is
\* after that step's optimizer update, without the exploration noise: drawing
\* the noise and rendering with it changes neither the optimized code nor the
\* trajectory, and the update writes the updated code itself.
C13_SnapshotUnperturbedAfterUpdate ==
    [][\A r \in Runs :
        /\ Moves(r, "loop", "backward") => w_opt'[r] = w_opt[r] /\ w_out'[r] = w_out[r]
        /\ Moves(r, "backward", "normalize") =>
              /\ w_opt'[r] = StepLatent(optimizer[r], loss[r], w_opt[r])
              /\ w_out'[r] = [w_out[r] EXCEPT ![step[r] + 1] = w_opt'[r]]
        /\ pc[r] \in {"normalize", "save", "done"} => w_out'[r] = w_out[r]]_vars
C13_Witness ==
    \E r \in Runs :
        /\ pc[r] = "normalize"
        /\ \E l \in 1..Len(w_noise[r]) : w_noise[r][l] # 0
        /\ optimizer[r].lr[1] # 0
        /\ ~w_opt[r].nan
        /\ w_out[r][step[r] + 1] = w_opt[r]
        /\ w_opt[r].v # w_avg[r]

\* the score of the run's loss strategy, from the terms of a step
StrategyScore(c, terms) ==
    IF c.loss_paper \in {"sgan2", "clip"} THEN terms[1] ELSE terms[1] + terms[2]
\* C14: at every step the minimized loss is the score of the run's one loss
\* strategy plus regularize_noise_weight times the noise penalty; in the
\* im2sgan and discriminator strategies the SSIM term is among the printed
\* terms and is no part of the loss.
C14_LossIsScorePlusWeightedPenalty ==
    \A r \in Runs :
        (pc[r] = "backward" /\ ~loss[r].nan) =>
            /\ loss[r].loss =
                   RNorm(RAdd(<<StrategyScore(cfg[r], loss[r].terms), 1>>,
                              RMul(loss[r].reg_loss, <<regularize_noise_weight(cfg[r]), 1>>)))
            /\ loss[r].reg_loss = RegLoss(heap[G[r]])
            /\ Len(loss[r].terms) = (IF cfg[r].loss_paper \in {"sgan2", "clip"} THEN 1 ELSE 3)
            /\ InSgan3(cfg[r]) => printed[r][Len(printed[r])].terms = loss[r].terms
C14_Witness ==
    \E r \in Runs :
        /\ pc[r] = "backward" /\ ~loss[r].nan
        /\ cfg[r].loss_paper = "im2sgan"
        /\ loss[r].terms[3] # 0 /\ loss[r].terms[1] + loss[r].terms[2] # 0
        /\ loss[r].reg_loss[1] # 0
        /\ step[r] > 0

\* the number of rows of the run's latent code: L in W+ mode, 1 in W mode
LatentRows(r) == IF cfg[r].project_in_wplus THEN heap[G[r]].num_ws ELSE 1
\* C16: the latent code keeps the shape its mode gives it, [L, C] in W+ mode
\* and [1, C] in W mode, from allocation on; the returned trajectory has
\* num_steps entries of L rows in both modes: in W mode the L rows of an entry
\* all equal the one code of that step, in W+ mode they are the L rows of the
\* optimized code.
C16_LatentShapeFixed ==
    \A r \in Runs :
        /\ Allocated(r) =>
              /\ Len(w_opt[r].v) = LatentRows(r)
              /\ \A k \in 1..Len(w_out[r]) : Len(w_out[r][k].v) = LatentRows(r)
        /\ result[r] # None =>
              /\ Len(result[r][1]) = cfg[r].num_steps
              /\ \A k \in 1..Len(result[r][1]) :
                    /\ Len(result[r][1][k].v) = heap[G[r]].num_ws
                    /\ \A l \in 1..heap[G[r]].num_ws :
                          result[r][1][k].v[l] =
                              w_out[r][k].v[IF cfg[r].project_in_wplus THEN l ELSE 1]
C16_Witness ==
    \E r \in Runs :
        /\ pc[r] = "done"
        /\ cfg[r].project_in_wplus
        /\ cfg[r].num_steps = 2
        /\ result[r][1][2].v[1] # result[r][1][2].v[2]
        /\ result[r][1][1] # result[r][1][2]
\* the mean square deviation of the run's sampled codes from their own mean
SampleSpreadSq(r) ==
    CHOOSE y \in {WStdSq(samples, SampleMean(samples)) :
                    samples \in {WSamples(heap[G[r]], cfg[r])}} : TRUE
\* C17: w_std is the root-mean-square deviation of the sampled codes from the
\* mean of the samples, whichever starting point and latent mode the run uses.
C17_WStdAboutSampleMean ==
    \A r \in Runs : pc[r] = "features" => w_std_sq[r] = SampleSpreadSq(r)

\* C18: in a run with the ramped schedule the rate of step 0 is 0: the first
\* optimizer update leaves the latent code and every noise buffer as they
\* were, and from then on the first trajectory entry is the starting code.
C18_FirstStepKeepsStart ==
    [][\A r \in Runs :
        ~cfg[r].constant_learning_rate =>
            /\ (Moves(r, "backward", "normalize") /\ step[r] = 0) =>
                  /\ optimizer[r].lr[1] = 0
                  /\ w_opt[r] = Lat(w_avg[r])
                  /\ w_opt'[r] = w_opt[r]
                  /\ heap'[G[r]].buffers = heap[G[r]].buffers
            /\ optimizer'[r].steps >= 1 => w_out'[r][1] = Lat(w_avg'[r])]_vars
C18_Witness ==
    \E r \in Runs :
        /\ ~cfg[r].constant_learning_rate
        /\ pc[r] = "done"
        /\ cfg[r].num_steps = 2
        /\ w_out[r][1] = Lat(w_avg[r])
        /\ w_out[r][2] # w_out[r][1]
        /\ ~w_out[r][2].nan

\* C19: a run with num_steps = 0 takes no optimizer step and ends without an
\* exception from the code after the loop: project() returns an empty
\* trajectory (with the run summary in the variant that has one) and the entry
\* point's result handling goes through.
C19_ZeroStepsCompletes ==
    \A r \in Runs :
        cfg[r].num_steps = 0 =>
            /\ StepsDone(r) = 0
            /\ err[r] \notin {"UnboundLocalError", "IndexError"}
            /\ pc[r] = "done" =>
                  /\ result[r] = <<<<>>>>
                  /\ InSgan3(cfg[r]) => run_config[r] # None

\* the archives np.savez has written
Archives == {f \in files : f.name = "npz"}
\* the archive's w is the last trajectory entry with a leading dimension of 1
\* and num_ws rows
HoldsFinalCode(f) ==
    /\ f.content.w = <<result[f.run][1][Len(result[f.run][1])]>>
    /\ Len(f.content.w[1].v) = heap[G[f.run]].num_ws
\* the archive holds the conditioning vector of the run
HoldsTargetClass(f) ==
    IF "target_class" \in DOMAIN f.content
    THEN f.content.target_class = cfg[f.run].target_class
    ELSE FALSE
\* C12: every archive a completed run has saved holds the final latent code
\* under w with shape [1, L, C] and, next to it, the conditioning vector used,
\* for run_projection and for run_projection_sgan3_fun.
C12_ArchiveHoldsCodeAndClass ==
    \A f \in Archives : HoldsFinalCode(f) /\ HoldsTargetClass(f)

(* ---------------- the noise regularization on its own ------------------ *)
\* sides of the noise buffers: powers of two from 4 on (the squared means of a
\* larger side do not fit TLC's 32-bit integers)
Sides == {4, 8, 16, 32}
\* largest coefficient of the buffers' patterns
MaxCoef == 1
\* a + b over the least common denominator
RAddLcm(a, b) ==
    CHOOSE y \in {RNorm(<<RNum(a) * (RDen(b) \div g) + RNum(b) * (RDen(a) \div g),
                          (RDen(a) \div g) * RDen(b)>>) : g \in {Gcd(RDen(a), RDen(b))}} : TRUE
\* a buffer of the given side with values in {-1, 0, 1}
Pattern(side, a, b, c) ==
    Image([i \in 1..side |-> [j \in 1..side |-> ((a * i + b * j + c * i * j) % 3) - 1]], 1)
Negated(x) == Image([i \in 1..Len(x.num) |-> [j \in 1..Len(x.num[i]) |-> -x.num[i][j]]], x.den)
\* noise.shape[2] and noise.shape[3]
Height(x) == Len(x.num)
Width(x) == Len(x.num[1])
RECURSIVE SumUpTo(_, _)
SumUpTo(v, k) == IF k = 0 THEN 0 ELSE v[k] + SumUpTo(v, k - 1)
\* the index torch.roll(shifts=1) brings to place k of n
Rolled(k, n) == IF k = 1 THEN n ELSE k - 1
\* (noise * torch.roll(noise, shifts=1, dims=dim)).mean()
ShiftProductMean(x, dim) ==
    CHOOSE y \in
        {RNorm(<<SumUpTo([i \in 1..h |-> SumUpTo([j \in 1..w |->
                     n[i][j] * (IF dim = 3 THEN n[i][Rolled(j, w)] ELSE n[Rolled(i, h)][j])], w)], h),
                 h * w * x.den * x.den>>) :
            n \in {x.num}, h \in {Height(x)}, w \in {Width(x)}} : TRUE
\* ... ** 2
Square_Omitted(m) == m
Square(m) == RMul(m, m)
\* the two terms one scale adds to reg_loss
ScaleTerms(x) ==
    CHOOSE y \in {RAddLcm(Square(m3), Square(m2)) :
                    m3 \in {ShiftProductMean(x, 3)}, m2 \in {ShiftProductMean(x, 2)}} : TRUE
\* F.avg_pool2d(noise, kernel_size=2)
AvgPool2d(x) ==
    CHOOSE y \in
        {Image([i \in 1..(h \div 2) |-> [j \in 1..(w \div 2) |->
                    n[2 * i - 1][2 * j - 1] + n[2 * i - 1][2 * j] + n[2 * i][2 * j - 1]
                    + n[2 * i][2 * j]]], 4 * x.den) :
            n \in {x.num}, h \in {Height(x)}, w \in {Width(x)}} : TRUE
\* if noise.shape[2] <= 8: break
Breaks_Early(x) == Height(x) <= 16
Breaks(x) == Height(x) <= 8

\* noise_bufs of the two runs: the same buffers, one of them negated in run 2
RegBuffers ==
    {<<Pattern(side, a, 1, c), Pattern(4, 1, 2, 1)>> :
        side \in Sides, a \in 0..MaxCoef, c \in 0..MaxCoef}
InitReg ==
    /\ \E bufs \in RegBuffers : \E k \in 1..2 :
           reg = [r \in Runs |->
                    [NoReg EXCEPT !.bufs = IF r = 1 THEN bufs
                                           ELSE [bufs EXCEPT ![k] = Negated(bufs[k])]]]
    /\ \E c \in {Config("project", 1, GoodRes, <<1, 0>>, 0, 0, AdaDefaults)} :
           /\ cfg = [r \in Runs |-> c]
           /\ pc = [r \in Runs |-> "reg_for"]
           /\ err = [r \in Runs |-> ""]
           /\ rng = 0
           /\ heap = [id \in ObjIds |-> IF id = BaseId THEN BaseG(c.weights) ELSE NoObj]
           /\ G = [r \in Runs |-> BaseId]
           /\ mapping_calls = [r \in Runs |-> 0]
           /\ w_avg = [r \in Runs |-> <<>>]
           /\ w_std_sq = [r \in Runs |-> RZero]
           /\ features = [r \in Runs |-> ""]
           /\ w_opt = [r \in Runs |-> NoLat]
           /\ w_out = [r \in Runs |-> <<>>]
           /\ optimizer = [r \in Runs |-> NewOptimizer(RZero)]
           /\ step = [r \in Runs |-> 0]
           /\ w_noise = [r \in Runs |-> <<>>]
           /\ loss = [r \in Runs |-> NoLoss]
           /\ last_status = [r \in Runs |-> None]
           /\ printed = [r \in Runs |-> <<>>]
           /\ writes = [r \in Runs |-> <<>>]
           /\ run_config = [r \in Runs |-> None]
           /\ result = [r \in Runs |-> None]
           /\ files = {}
           /\ log_errors = [r \in Runs |-> <<>>]
\* for v in noise_bufs.values(): noise = v[None, None, :, :]
RegFor(r) ==
    /\ pc[r] = "reg_for"
    /\ \E x \in {reg[r]} :
           IF x.v < Len(x.bufs)
           THEN /\ reg' = [reg EXCEPT ![r] = [x EXCEPT !.v = x.v + 1, !.noise = x.bufs[x.v + 1]]]
                /\ Goto(r, "reg_terms")
           ELSE /\ UNCHANGED reg
                /\ Goto(r, "reg_done")
    /\ UNCHANGED <<cfg, rng, heap, G, proj_vars, files, log_errors>>
\* reg_loss += (noise * torch.roll(noise, shifts=1, dims=3)).mean() ** 2
\* reg_loss += (noise * torch.roll(noise, shifts=1, dims=2)).mean() ** 2
RegTerms(r) ==
    /\ pc[r] = "reg_terms"
    /\ \E x \in {reg[r]} : \E t \in {ScaleTerms(x.noise)} :
           reg' = [reg EXCEPT ![r] =
                     [x EXCEPT !.reg_loss = RAddLcm(x.reg_loss, t),
                               !.scales = Append(x.scales, <<x.v, Height(x.noise)>>)]]
    /\ Goto(r, "reg_break")
    /\ UNCHANGED <<cfg, rng, heap, G, proj_vars, files, log_errors>>
\* if noise.shape[2] <= 8: break; noise = F.avg_pool2d(noise, kernel_size=2)
RegBreakOrPool(r) ==
    /\ pc[r] = "reg_break"
    /\ \E x \in {reg[r]} :
           IF Breaks(x.noise)
           THEN /\ UNCHANGED reg
                /\ Goto(r, "reg_for")
           ELSE /\ reg' = [reg EXCEPT ![r] = [x EXCEPT !.noise = AvgPool2d(x.noise)]]
                /\ Goto(r, "reg_terms")
    /\ UNCHANGED <<cfg, rng, heap, G, proj_vars, files, log_errors>>
NextReg == \E r \in Runs : RegFor(r) \/ RegTerms(r) \/ RegBreakOrPool(r)
\* the regularization loops go on while a statement is left to execute
SpecReg == InitReg /\ [][NextReg]_vars /\ WF_vars(NextReg)

RegDone(r) == pc[r] = "reg_done"
\* the sides at which buffer i of run r was penalized, in order
ScalesOf(r, i) ==
    LET IsScaleOf(e) == e[1] = i
    IN  CHOOSE y \in {[k \in 1..Len(q) |-> q[k][2]] :
                        q \in {SelectSeq(reg[r].scales, IsScaleOf)}} : TRUE

\* C11: the noise regularization penalty is never negative, and negating one
\* buffer while the others stay as they are leaves the penalty unchanged.
C11_PenaltyNonNegativeSignInvariant ==
    /\ \A r \in Runs : RNum(reg[r].reg_loss) >= 0 /\ RDen(reg[r].reg_loss) > 0
    /\ (\A r \in Runs : RegDone(r)) => reg[1].reg_loss = reg[2].reg_loss
C11_Witness ==
    /\ \A r \in Runs : RegDone(r)
    /\ reg[1].bufs # reg[2].bufs
    /\ RNum(reg[1].reg_loss) > 0
    /\ Len(reg[1].scales) > 2

\* the pyramid of one buffer: from the native side down by halves, stopping
\* at the first side that is 8 or less
Pyramid(q, side) ==
    /\ q # <<>>
    /\ q[1] = side
    /\ \A k \in 1..(Len(q) - 1) : q[k] > 8 /\ 2 * q[k + 1] = q[k]
    /\ q[Len(q)] <= 8
    /\ side >= 8 => q[Len(q)] = 8
PyramidsDone ==
    \A r \in Runs : RegDone(r) =>
        \A i \in 1..Len(reg[r].bufs) : Pyramid(ScalesOf(r, i), Height(reg[r].bufs[i]))
\* C15: each buffer is penalized at its native side and after every halving
\* while the side exceeds 8 (a side of 8 or less once only), and the
\* regularization always terminates.
C15_PyramidDownToEight == [](PyramidsDone) /\ <>(\A r \in Runs : RegDone(r))
C15_Witness ==
    /\ \A r \in Runs : RegDone(r)
    /\ \E i \in 1..2 : ScalesOf(1, i) = <<32, 16, 8>>
    /\ \E i \in 1..2 : ScalesOf(1, i) = <<4>>

====
